---------------------------- MODULE Spec2Model ----------------------------
(***************************************************************************)
(* Task Management Dashboard (src/priorityyyy.py).                         *)
(*                                                                         *)
(* A Streamlit script: every page run loads a table from a Google Sheet    *)
(* (or the sample table when the fetch raises), normalises its text        *)
(* columns with clean_data, drops completed rows with                      *)
(* filter_pending_tasks and derives the per-officer and per-department     *)
(* counts and the oldest pending task.  The officer page ends with a       *)
(* sidebar form of three selectboxes and the Detailed Task List they       *)
(* filter; the session keeps st.session_state and the values of the        *)
(* selectboxes from one run to the next.                                   *)
(*                                                                         *)
(* Text is modelled as a sequence of one-character strings, so that        *)
(* str.strip, str.title and str.lower are computed character by character  *)
(* as pandas computes them.  A table is a record [cols, rows]: cols is the *)
(* set of column labels and rows a sequence of functions from cols to      *)
(* cells; the pandas index label of a row is its position in the table it  *)
(* was loaded as, kept in the row under the key IndexLabel.                *)
(***************************************************************************)
EXTENDS Integers, Sequences, FiniteSets, TLC

VARIABLES
    sheet,          \* what conn.read returns when the fetch succeeds
    now,            \* datetime.now(), in hours since day ordinal 0
    cache,          \* st.cache_data entry of load_data_from_gsheet
    page,           \* the page the last script run executed
    outcome,        \* how that run ended
    raw_data,       \* what load_data_from_gsheet returned to the last run
    clean_df,       \* what clean_data returned to the last run
    pending_df,     \* pending_df of the last run
    messages,       \* st.error / st.warning calls of the last run
    officer_chart,  \* officer_chart of the last run of the officer page
    dept_chart,     \* dept_chart of the last run of the officer page
    oldest,         \* the "Oldest Pending Task" panel of the last run
    reclean_df,     \* clean_data applied to clean_df (normalisation harness)
    session_state,  \* st.session_state: the keys the script has set
    widgets,        \* the values the session keeps for the form's selectboxes
    apply_filters,  \* apply_filters of the last run of the officer page
    filtered_df     \* filtered_df of the last run of the officer page

vars == <<sheet, now, cache, page, outcome, raw_data, clean_df, pending_df,
          messages, officer_chart, dept_chart, oldest, reclean_df,
          session_state, widgets, apply_filters, filtered_df>>

-----------------------------------------------------------------------------
(* Characters and Python's str methods *)

Lowers == <<"a","b","c","d","e","f","g","h","i","j","k","l","m",
            "n","o","p","q","r","s","t","u","v","w","x","y","z">>

Uppers == <<"A","B","C","D","E","F","G","H","I","J","K","L","M",
            "N","O","P","Q","R","S","T","U","V","W","X","Y","Z">>

LowerSet == {Lowers[i] : i \in 1..26}

UpperSet == {Uppers[i] : i \in 1..26}

\* the lower-case letter of each upper-case letter, and the converse
LowerOf == [c \in UpperSet |-> Lowers[CHOOSE i \in 1..26 : Uppers[i] = c]]

UpperOf == [c \in LowerSet |-> Uppers[CHOOSE i \in 1..26 : Lowers[i] = c]]

IsCased(c) == c \in LowerSet \/ c \in UpperSet

IsSpace(c) == c \in {" ", "\t", "\n"}

ToLowerChar(c) == IF c \in UpperSet THEN LowerOf[c] ELSE c

ToUpperChar(c) == IF c \in LowerSet THEN UpperOf[c] ELSE c

\* str.lower()
str_lower(s) == [i \in 1..Len(s) |-> ToLowerChar(s[i])]

\* str.upper()
str_upper(s) == [i \in 1..Len(s) |-> ToUpperChar(s[i])]

RECURSIVE lstrip(_)
lstrip(s) == IF s # <<>> /\ IsSpace(Head(s)) THEN lstrip(Tail(s)) ELSE s

RECURSIVE rstrip(_)
rstrip(s) ==
    IF s # <<>> /\ IsSpace(s[Len(s)]) THEN rstrip(SubSeq(s, 1, Len(s) - 1)) ELSE s

\* str.strip(): leading and trailing whitespace removed, interior kept
str_strip(s) == rstrip(lstrip(s))

\* str.title(): a cased character is upper-cased when the character before it
\* is not cased (or there is none) and lower-cased otherwise.
str_title(s) ==
    [i \in 1..Len(s) |->
        IF ~IsCased(s[i]) THEN s[i]
        ELSE IF i > 1 /\ IsCased(s[i - 1]) THEN ToLowerChar(s[i])
        ELSE ToUpperChar(s[i])]

\* t occurs in s as a contiguous substring (Python's `t in s`)
Contains(s, t) ==
    \E i \in 0..(Len(s) - Len(t)) : SubSeq(s, i + 1, i + Len(t)) = t

\* A missing cell (numpy.nan).  No text equals it: its one element is not a
\* character.
NaN == <<"NaN">>

\* astype(str) of a cell: text is kept, a missing cell becomes the text "nan".
astype_str(cell) == IF cell = NaN THEN <<"n","a","n">> ELSE cell

-----------------------------------------------------------------------------
(* Column labels and the literals of clean_data *)

DealingBranch == <<"D","e","a","l","i","n","g"," ","B","r","a","n","c","h">>
AssignTo == <<"A","s","s","i","g","n"," ","T","o">>
Priority == <<"P","r","i","o","r","i","t","y">>
Status == <<"S","t","a","t","u","s">>
AssignedDate == <<"A","s","s","i","g","n","e","d"," ","D","a","t","e">>
TaskID == <<"T","a","s","k"," ","I","D">>
TaskName == <<"T","a","s","k"," ","N","a","m","e">>

\* The pandas index label of a row; never a column of the sheet.
IndexLabel == <<"index">>

High == <<"H","i","g","h">>
Medium == <<"M","e","d","i","u","m">>
Low == <<"L","o","w">>
Completed == <<"C","o","m","p","l","e","t","e","d">>
Pending == <<"P","e","n","d","i","n","g">>

text_columns == {DealingBranch, AssignTo, Priority, Status}

\* A plausible slip: the key 'Low Priority' forgotten.
priority_mapping_NoLowPriority ==
    (<<"H","i","g","h"," ","P","r","i","o","r","i","t","y">> :> High)
    @@ (<<"H","i","g","h">> :> High)
    @@ (<<"M","e","d","i","u","m"," ","P","r","i","o","r","i","t","y">> :> Medium)
    @@ (<<"M","e","d","i","u","m">> :> Medium)
    @@ (<<"L","o","w">> :> Low)

priority_mapping ==
    (<<"H","i","g","h"," ","P","r","i","o","r","i","t","y">> :> High)
    @@ (<<"H","i","g","h">> :> High)
    @@ (<<"H","I","G","H">> :> High)
    @@ (<<"M","e","d","i","u","m"," ","P","r","i","o","r","i","t","y">> :> Medium)
    @@ (<<"M","e","d","i","u","m">> :> Medium)
    @@ (<<"M","E","D","I","U","M">> :> Medium)
    @@ (<<"L","o","w"," ","P","r","i","o","r","i","t","y">> :> Low)
    @@ (<<"L","o","w">> :> Low)
    @@ (<<"L","O","W">> :> Low)

\* A plausible slip: "Done" mapped to "Complete", itself a key of the mapping.
status_mapping_DoneToComplete ==
    (<<"C","o","m","p","l","e","t","e">> :> Completed)
    @@ (<<"F","i","n","i","s","h","e","d">> :> Completed)
    @@ (<<"D","o","n","e">> :> <<"C","o","m","p","l","e","t","e">>)
    @@ (<<"I","n"," ","P","r","o","g","r","e","s","s">> :> Pending)
    @@ (<<"O","n","g","o","i","n","g">> :> Pending)
    @@ (<<"O","p","e","n">> :> Pending)

status_mapping ==
    (<<"C","o","m","p","l","e","t","e">> :> Completed)
    @@ (<<"F","i","n","i","s","h","e","d">> :> Completed)
    @@ (<<"D","o","n","e">> :> Completed)
    @@ (<<"I","n"," ","P","r","o","g","r","e","s","s">> :> Pending)
    @@ (<<"O","n","g","o","i","n","g">> :> Pending)
    @@ (<<"O","p","e","n">> :> Pending)

\* A plausible slip: the keys matched as substrings of the value.
map_fillna_Substring(mapping, v) ==
    IF \E k \in DOMAIN mapping : Contains(v, k)
    THEN mapping[CHOOSE k \in DOMAIN mapping : Contains(v, k)]
    ELSE v

\* Series.map(mapping).fillna(series): a value that is a key is replaced, any
\* other value is kept as it is.
map_fillna(mapping, v) == IF v \in DOMAIN mapping THEN mapping[v] ELSE v

-----------------------------------------------------------------------------
(* Tables *)

None == [kind |-> "none"]

\* DataFrame.empty: some axis has length 0
empty(df) == df.cols = {} \/ df.rows = <<>>

\* df.columns = df.columns.str.strip()
strip_columns(df) ==
    LET newcols == {str_strip(c) : c \in df.cols}
        old == [c2 \in newcols |-> CHOOSE c \in df.cols : str_strip(c) = c2]
    IN [cols |-> newcols,
        rows |-> [i \in 1..Len(df.rows) |->
                    [c2 \in newcols \cup {IndexLabel} |->
                        IF c2 = IndexLabel THEN df.rows[i][IndexLabel]
                        ELSE df.rows[i][old[c2]]]]]

\* A plausible slip: .str.title() left out.
standardize_text_NoTitle(cell) == str_strip(astype_str(cell))

\* df[col].astype(str).str.strip().str.title()
standardize_text(cell) == str_title(str_strip(astype_str(cell)))

clean_cell(col, cell) ==
    LET t == IF col \in text_columns THEN standardize_text(cell) ELSE cell
    IN IF col = Priority THEN map_fillna(priority_mapping, t)
       ELSE IF col = Status THEN map_fillna(status_mapping, t)
       ELSE t

clean_data(df) ==
    IF empty(df) THEN df
    ELSE LET d == strip_columns(df)
         IN [cols |-> d.cols,
             rows |-> [i \in 1..Len(d.rows) |->
                         [c \in DOMAIN d.rows[i] |-> clean_cell(c, d.rows[i][c])]]]

\* A plausible slip: the lower-cased status compared with 'Completed'.
filter_pending_tasks_Capital(df) ==
    IF Status \in df.cols
    THEN [cols |-> df.cols,
          rows |-> SelectSeq(df.rows,
                        LAMBDA r : r[Status] = NaN \/ str_lower(r[Status]) # Completed)]
    ELSE df

\* A plausible slip: only rows whose status is 'Pending' kept.
filter_pending_tasks_OnlyPending(df) ==
    IF Status \in df.cols
    THEN [cols |-> df.cols,
          rows |-> SelectSeq(df.rows, LAMBDA r : r[Status] = Pending)]
    ELSE df

\* Filter out completed tasks.  Series.str.lower() leaves a missing cell
\* missing, and a missing cell differs from 'completed'.
filter_pending_tasks(df) ==
    IF Status \in df.cols
    THEN [cols |-> df.cols,
          rows |-> SelectSeq(df.rows,
                        LAMBDA r : r[Status] = NaN
                                   \/ str_lower(r[Status])
                                        # <<"c","o","m","p","l","e","t","e","d">>)]
    ELSE df

\* Series.value_counts(): the number of rows per distinct value, missing
\* values dropped.
value_counts(df, col) ==
    LET vals == {df.rows[i][col] : i \in 1..Len(df.rows)} \ {NaN}
    IN [v \in vals |-> Cardinality({i \in 1..Len(df.rows) : df.rows[i][col] = v})]

\* A bar chart, known by the counts it is drawn from
Figure(counts) == [kind |-> "figure", counts |-> counts]

create_officer_summary_chart(df) ==
    IF empty(df) \/ AssignTo \notin df.cols THEN None
    ELSE Figure(value_counts(df, AssignTo))

\* A plausible slip: a missing column counted under the key "Unknown".
create_department_summary_chart_Unknown(df) ==
    IF empty(df) THEN None
    ELSE IF DealingBranch \notin df.cols
    THEN Figure(<<"U","n","k","n","o","w","n">> :> Len(df.rows))
    ELSE Figure(value_counts(df, DealingBranch))

create_department_summary_chart(df) ==
    IF empty(df) \/ DealingBranch \notin df.cols THEN None
    ELSE Figure(value_counts(df, DealingBranch))

-----------------------------------------------------------------------------
(* Dates *)

Digits == <<"0","1","2","3","4","5","6","7","8","9">>

DigitValue == [c \in {Digits[i] : i \in 1..10} |-> (CHOOSE i \in 1..10 : Digits[i] = c) - 1]

IsDigit(c) == c \in DOMAIN DigitValue

DigitVal(c) == DigitValue[c]

IsLeap(y) == (y % 4 = 0) /\ ((y % 100 # 0) \/ (y % 400 = 0))

DaysInMonth(y, m) ==
    IF m = 2 THEN (IF IsLeap(y) THEN 29 ELSE 28)
    ELSE IF m \in {4, 6, 9, 11} THEN 30 ELSE 31

RECURSIVE DaysBeforeMonth(_, _)
DaysBeforeMonth(y, m) ==
    IF m = 1 THEN 0 ELSE DaysBeforeMonth(y, m - 1) + DaysInMonth(y, m - 1)

\* The proleptic Gregorian ordinal of a date (date.toordinal())
toordinal(y, m, d) ==
    (y - 1) * 365 + ((y - 1) \div 4) - ((y - 1) \div 100) + ((y - 1) \div 400)
    + DaysBeforeMonth(y, m) + d

Year(s) == DigitVal(s[1]) * 1000 + DigitVal(s[2]) * 100
           + DigitVal(s[3]) * 10 + DigitVal(s[4])

Month(s) == DigitVal(s[6]) * 10 + DigitVal(s[7])

Day(s) == DigitVal(s[9]) * 10 + DigitVal(s[10])

\* A calendar date written YYYY-MM-DD
IsIsoDate(s) ==
    /\ Len(s) = 10
    /\ s[5] = "-" /\ s[8] = "-"
    /\ \A i \in {1, 2, 3, 4, 6, 7, 9, 10} : IsDigit(s[i])
    /\ Year(s) >= 1
    /\ Month(s) \in 1..12
    /\ Day(s) \in 1..DaysInMonth(Year(s), Month(s))

HoursPerDay == 24

NaT == <<"NaT">>

Raises == <<"raises">>

\* A pandas Timestamp, as hours since the midnight that starts ordinal 0.
Timestamp(hours) == <<"ts", hours>>

IsTimestamp(v) == Len(v) = 2 /\ v[1] = "ts"

\* A plausible slip: errors='coerce', unparseable text becomes NaT.
to_datetime_Coerce(cell) ==
    IF cell = NaN \/ cell = <<>> THEN NaT
    ELSE IF IsIsoDate(cell)
         THEN Timestamp(toordinal(Year(cell), Month(cell), Day(cell)) * HoursPerDay)
         ELSE NaT

\* pd.to_datetime of one cell: a missing or empty cell is NaT, a date is the
\* Timestamp of its midnight, any other text raises.  The sheets of this
\* model write dates as YYYY-MM-DD only.
to_datetime(cell) ==
    IF cell = NaN \/ cell = <<>> THEN NaT
    ELSE IF IsIsoDate(cell)
         THEN Timestamp(toordinal(Year(cell), Month(cell), Day(cell)) * HoursPerDay)
         ELSE Raises

\* Timedelta.days of (a - b), both in hours: the floor of the difference in
\* days.
timedelta_days(a, b) == (a - b) \div HoursPerDay

\* pd.to_datetime(pending_df['Assigned Date']) raises: some cell raises.
to_datetime_raises(df) ==
    \E i \in 1..Len(df.rows) : to_datetime(df.rows[i][AssignedDate]) = Raises

\* pending_df['Assigned Date'] = pd.to_datetime(pending_df['Assigned Date']),
\* when it does not raise
parse_assigned_date(df) ==
    [cols |-> df.cols,
     rows |-> [i \in 1..Len(df.rows) |->
                 [df.rows[i] EXCEPT ![AssignedDate] = to_datetime(@)]]]

\* Series.idxmin(): the position of the first row holding the least
\* Timestamp, NaT skipped; 0 when every cell is NaT (pandas raises, or
\* returns a missing label that .loc then rejects).
idxmin(df) ==
    LET dated == {i \in 1..Len(df.rows) : IsTimestamp(df.rows[i][AssignedDate])}
    IN IF dated = {} THEN 0
       ELSE CHOOSE i \in dated :
              \A j \in dated :
                 \/ df.rows[i][AssignedDate][2] < df.rows[j][AssignedDate][2]
                 \/ (df.rows[i][AssignedDate][2] = df.rows[j][AssignedDate][2]
                     /\ i <= j)

-----------------------------------------------------------------------------
(* create_sample_data *)

DueDate == <<"D","u","e"," ","D","a","t","e">>
File == <<"F","i","l","e">>

sample_TaskID ==
    <<<<"T","A","S","K","0","0","1">>,
      <<"T","A","S","K","0","0","2">>,
      <<"T","A","S","K","0","0","3">>,
      <<"T","A","S","K","0","0","4">>,
      <<"T","A","S","K","0","0","5">>,
      <<"T","A","S","K","0","0","6">>,
      <<"T","A","S","K","0","0","7">>,
      <<"T","A","S","K","0","0","8">>>>

sample_TaskName ==
    <<<<"R","e","v","i","e","w"," ","B","u","d","g","e","t"," ","R","e","p","o","r","t">>,
      <<"U","p","d","a","t","e"," ","W","e","b","s","i","t","e"," ","C","o","n","t","e","n","t">>,
      <<"P","r","e","p","a","r","e"," ","M","o","n","t","h","l","y"," ","P","r","e","s","e","n","t","a","t","i","o","n">>,
      <<"C","o","n","d","u","c","t"," ","T","e","a","m"," ","M","e","e","t","i","n","g">>,
      <<"S","y","s","t","e","m"," ","M","a","i","n","t","e","n","a","n","c","e">>,
      <<"C","l","i","e","n","t"," ","F","o","l","l","o","w","-","u","p">>,
      <<"D","o","c","u","m","e","n","t"," ","R","e","v","i","e","w">>,
      <<"T","r","a","i","n","i","n","g"," ","S","e","s","s","i","o","n">>>>

sample_DealingBranch ==
    <<<<"F","i","n","a","n","c","e">>,
      <<"I","T">>,
      <<"F","i","n","a","n","c","e">>,
      <<"H","R">>,
      <<"I","T">>,
      <<"S","a","l","e","s">>,
      <<"L","e","g","a","l">>,
      <<"H","R">>>>

sample_AssignTo ==
    <<<<"J","o","h","n"," ","S","m","i","t","h">>,
      <<"A","l","i","c","e"," ","J","o","h","n","s","o","n">>,
      <<"J","o","h","n"," ","S","m","i","t","h">>,
      <<"B","o","b"," ","W","i","l","s","o","n">>,
      <<"A","l","i","c","e"," ","J","o","h","n","s","o","n">>,
      <<"C","a","r","o","l"," ","D","a","v","i","s">>,
      <<"E","v","e"," ","B","r","o","w","n">>,
      <<"B","o","b"," ","W","i","l","s","o","n">>>>

sample_Priority ==
    <<<<"H","i","g","h">>,
      <<"M","e","d","i","u","m">>,
      <<"H","i","g","h">>,
      <<"L","o","w">>,
      <<"M","e","d","i","u","m">>,
      <<"H","i","g","h">>,
      <<"L","o","w">>,
      <<"M","e","d","i","u","m">>>>

sample_Status ==
    <<<<"P","e","n","d","i","n","g">>,
      <<"P","e","n","d","i","n","g">>,
      <<"P","e","n","d","i","n","g">>,
      <<"C","o","m","p","l","e","t","e","d">>,
      <<"P","e","n","d","i","n","g">>,
      <<"P","e","n","d","i","n","g">>,
      <<"P","e","n","d","i","n","g">>,
      <<"C","o","m","p","l","e","t","e","d">>>>

sample_AssignedDate ==
    <<<<"2","0","2","4","-","0","8","-","2","0">>,
      <<"2","0","2","4","-","0","8","-","2","2">>,
      <<"2","0","2","4","-","0","8","-","1","5">>,
      <<"2","0","2","4","-","0","8","-","2","5">>,
      <<"2","0","2","4","-","0","8","-","2","3">>,
      <<"2","0","2","4","-","0","8","-","1","8">>,
      <<"2","0","2","4","-","0","8","-","2","1">>,
      <<"2","0","2","4","-","0","8","-","2","4">>>>

sample_DueDate ==
    <<<<"2","0","2","4","-","0","8","-","3","0">>,
      <<"2","0","2","4","-","0","9","-","0","5">>,
      <<"2","0","2","4","-","0","8","-","2","8">>,
      <<"2","0","2","4","-","0","8","-","2","6">>,
      <<"2","0","2","4","-","0","9","-","0","1">>,
      <<"2","0","2","4","-","0","8","-","2","9">>,
      <<"2","0","2","4","-","0","9","-","0","3">>,
      <<"2","0","2","4","-","0","8","-","2","7">>>>

sample_File ==
    <<<<"h","t","t","p","s",":","/","/","e","x","a","m","p","l","e",".","c","o","m","/","b","u","d","g","e","t","-","r","e","p","o","r","t">>,
      <<"h","t","t","p","s",":","/","/","e","x","a","m","p","l","e",".","c","o","m","/","w","e","b","s","i","t","e","-","u","p","d","a","t","e">>,
      <<"h","t","t","p","s",":","/","/","e","x","a","m","p","l","e",".","c","o","m","/","p","r","e","s","e","n","t","a","t","i","o","n">>,
      <<"h","t","t","p","s",":","/","/","e","x","a","m","p","l","e",".","c","o","m","/","m","e","e","t","i","n","g","-","n","o","t","e","s">>,
      <<"h","t","t","p","s",":","/","/","e","x","a","m","p","l","e",".","c","o","m","/","m","a","i","n","t","e","n","a","n","c","e">>,
      <<"h","t","t","p","s",":","/","/","e","x","a","m","p","l","e",".","c","o","m","/","c","l","i","e","n","t","-","i","n","f","o">>,
      <<"h","t","t","p","s",":","/","/","e","x","a","m","p","l","e",".","c","o","m","/","d","o","c","u","m","e","n","t">>,
      <<"h","t","t","p","s",":","/","/","e","x","a","m","p","l","e",".","c","o","m","/","t","r","a","i","n","i","n","g">>>>


sample_columns ==
    (TaskID :> sample_TaskID) @@ (TaskName :> sample_TaskName)
    @@ (DealingBranch :> sample_DealingBranch) @@ (AssignTo :> sample_AssignTo)
    @@ (Priority :> sample_Priority) @@ (Status :> sample_Status)
    @@ (AssignedDate :> sample_AssignedDate) @@ (DueDate :> sample_DueDate)
    @@ (File :> sample_File)

\* A plausible slip: an empty frame with the sample's columns on failure.
create_sample_data_Empty == [cols |-> DOMAIN sample_columns, rows |-> <<>>]

\* pd.DataFrame(sample_data): the default index labels are 0, 1, ...
create_sample_data ==
    [cols |-> DOMAIN sample_columns,
     rows |-> [i \in 1..Len(sample_TaskID) |->
                 [c \in DOMAIN sample_columns \cup {IndexLabel} |->
                    IF c = IndexLabel THEN i - 1 ELSE sample_columns[c][i]]]]

-----------------------------------------------------------------------------
(* The sheets and clocks the runs start from *)

\* The most whitespace a raw cell or header carries on either side.
MaxPad == 1

\* The most rows of a sheet.
MaxRows == 2

Spaces(k) == [i \in 1..k |-> " "]

Pads(s) == {Spaces(j) \o s \o Spaces(k) : j, k \in {0, MaxPad}}

\* uRgEnT: upper and lower case alternating
AltCase(s) ==
    [i \in 1..Len(s) |-> IF i % 2 = 0 THEN ToUpperChar(s[i]) ELSE ToLowerChar(s[i])]

\* Every spelling of a lower-case phrase the sheets use: four letter cases,
\* each with and without surrounding whitespace.
Spellings(s) == UNION {Pads(t) : t \in {s, str_upper(s), str_title(s), AltCase(s)}}

PriorityPhrases ==
    { <<"u","r","g","e","n","t">>,
      <<"m","o","s","t"," ","u","r","g","e","n","t">>,
      <<"u","r","g","e","n","t"," ","h","i","g","h">>,
      <<"m","e","d","i","u","m"," ","u","r","g","e","n","t">>,
      <<"h","i","g","h">>,
      <<"h","i","g","h"," ","p","r","i","o","r","i","t","y">>,
      <<"m","e","d","i","u","m">>,
      <<"m","e","d">>,
      <<"l","o","w">>,
      <<"l","o","w"," ","p","r","i","o","r","i","t","y">>,
      <<"c","r","i","t","i","c","a","l">>,
      <<>> }

RawPriorities == UNION {Spellings(s) : s \in PriorityPhrases} \cup {NaN}

\* The completion synonyms of the specification, in lower case.
CompletionSynonyms ==
    { <<"c","o","m","p","l","e","t","e">>,
      <<"c","o","m","p","l","e","t","e","d">>,
      <<"c","l","o","s","e","d">>,
      <<"d","i","s","p","o","s","e","d">>,
      <<"r","e","s","o","l","v","e","d">>,
      <<"d","o","n","e">>,
      <<"f","i","n","i","s","h","e","d">> }

StatusPhrases ==
    CompletionSynonyms
    \cup { <<"p","e","n","d","i","n","g">>,
           <<"i","n"," ","p","r","o","g","r","e","s","s">>,
           <<"i","n","-","p","r","o","g","r","e","s","s">>,
           <<"o","n","g","o","i","n","g">>,
           <<"o","p","e","n">>,
           <<"n","o","t"," ","d","o","n","e">>,
           <<>> }

RawStatuses == UNION {Spellings(s) : s \in StatusPhrases} \cup {NaN}

JohnSmith == <<"J","o","h","n"," ","S","m","i","t","h">>

RawOfficers ==
    { JohnSmith,
      <<" ">> \o <<"j","o","h","n"," ","S","M","I","T","H">> \o <<" ">>,
      <<"n","a","n">>,
      NaN }

Finance == <<"F","i","n","a","n","c","e">>

RawDepartments == { Finance, <<" ","f","i","n","a","n","c","e">>, <<"I","T">>, NaN }

Date0801 == <<"2","0","2","4","-","0","8","-","0","1">>
Date0820 == <<"2","0","2","4","-","0","8","-","2","0">>
Date0905 == <<"2","0","2","4","-","0","9","-","0","5">>
Unparseable == <<"s","o","o","n">>

RawDates == { Date0801, Date0820, Date0905, <<>>, NaN, Unparseable }

\* The reference times: noon of 2024-08-30, and the midnight that starts
\* 2024-08-20.
ReferenceNoon == toordinal(2024, 8, 30) * HoursPerDay + 12
ReferenceMidnight == toordinal(2024, 8, 20) * HoursPerDay

Row(d, o, p, s, dt) ==
    (TaskID :> <<"T","1">>) @@ (DealingBranch :> d) @@ (AssignTo :> o)
    @@ (Priority :> p) @@ (Status :> s) @@ (AssignedDate :> dt)

\* The table conn.read returns for a sheet with these rows: index labels
\* 0, 1, ...
MkTable(rows) ==
    [cols |-> {TaskID, DealingBranch, AssignTo, Priority, Status, AssignedDate},
     rows |-> [i \in 1..Len(rows) |-> rows[i] @@ (IndexLabel :> i - 1)]]

SeqsUpTo(S, n) == UNION {[1..k -> S] : k \in 0..n}

\* The sheet without column c
DropCol(t, c) ==
    [cols |-> t.cols \ {c},
     rows |-> [i \in 1..Len(t.rows) |->
                 [k \in DOMAIN t.rows[i] \ {c} |-> t.rows[i][k]]]]

\* The sheet with the header of column c written c2
RenameCol(t, c, c2) ==
    [cols |-> (t.cols \ {c}) \cup {c2},
     rows |-> [i \in 1..Len(t.rows) |->
                 [k \in (DOMAIN t.rows[i] \ {c}) \cup {c2} |->
                    IF k = c2 THEN t.rows[i][c] ELSE t.rows[i][k]]]]

\* One task, every spelling of its priority or of its status.
TextSheets ==
    {MkTable(<<Row(Finance, JohnSmith, p, Pending, Date0820)>>) : p \in RawPriorities}
    \cup {MkTable(<<Row(Finance, JohnSmith, High, s, Date0820)>>) : s \in RawStatuses}

Alice == <<"A","l","i","c","e"," ","J","o","h","n","s","o","n">>

OfficerRows ==
    {Row(Finance, o, High, s, Date0820) :
        o \in RawOfficers,
        s \in {Pending, <<"c","o","m","p","l","e","t","e","d">>}}

\* Tasks of several officers, and sheets without a Status, an Assign To or a
\* Task ID column.
OfficerSheets ==
    {MkTable(rs) : rs \in SeqsUpTo(OfficerRows, MaxRows)}
    \cup {DropCol(MkTable(rs), c) :
            rs \in SeqsUpTo({Row(Finance, o, High, s, Date0820) :
                                o \in {JohnSmith, Alice},
                                s \in {Pending, <<"D","O","N","E">>}}, MaxRows),
            c \in {Status, AssignTo, TaskID}}

DeptRows ==
    {Row(d, JohnSmith, Low, Pending, Date0820) : d \in RawDepartments}
    \cup {Row(Finance, JohnSmith, Low, <<"D","o","n","e">>, Date0820)}

\* Tasks of several departments; sheets whose department header is absent,
\* padded, or in lower case (a label clean_data does not know).
DeptSheets ==
    LET full == {MkTable(rs) : rs \in SeqsUpTo(DeptRows, MaxRows)}
    IN full
       \cup {DropCol(t, DealingBranch) : t \in full}
       \cup {RenameCol(t, DealingBranch, Spaces(MaxPad) \o DealingBranch) : t \in full}
       \cup {RenameCol(t, DealingBranch, str_lower(DealingBranch)) : t \in full}

DateRows ==
    {Row(Finance, JohnSmith, Medium, Pending, dt) : dt \in RawDates}
    \cup {Row(Finance, JohnSmith, Medium, Completed, Date0801)}

\* Tasks assigned on several dates, some of them completed
DateSheets == {MkTable(rs) : rs \in SeqsUpTo(DateRows, MaxRows)}

-----------------------------------------------------------------------------
(* The script runs *)

\* A session that has run nothing yet: no cache entry, an empty
\* st.session_state, nothing on screen.
NewSession ==
    /\ cache = None
    /\ page = "none"
    /\ outcome = "none"
    /\ raw_data = None
    /\ clean_df = None
    /\ pending_df = None
    /\ messages = {}
    /\ officer_chart = None
    /\ dept_chart = None
    /\ oldest = None
    /\ reclean_df = None
    /\ session_state = [k \in {} |-> FALSE]
    /\ widgets = None
    /\ apply_filters = FALSE
    /\ filtered_df = None

Init ==
    /\ \/ sheet \in TextSheets \cup OfficerSheets \cup DeptSheets
          /\ now = ReferenceNoon
       \/ sheet \in DateSheets
          /\ now \in {ReferenceNoon, ReferenceMidnight}
    /\ NewSession

\* What conn.read does in a run: nothing when the call of
\* load_data_from_gsheet is answered from the cache, else it returns the
\* sheet or raises.
FetchOutcomes == IF cache # None THEN {"cached"} ELSE {"returns", "raises"}

\* load_data_from_gsheet under st.cache_data: a cached entry is returned (and
\* its st.error replayed) without fetching; else conn.read's table, or, when
\* it raises, the sample table after st.error.
load_data_from_gsheet(fetched) ==
    IF fetched = "cached" THEN cache
    ELSE IF fetched = "returns" THEN [data |-> sheet, error |-> FALSE]
    ELSE [data |-> create_sample_data, error |-> TRUE]

\* The summary table of the officer page: agg raises KeyError when
\* 'Task ID' or 'Priority' is not a column.
summary_table_raises(df) ==
    AssignTo \in df.cols /\ ~({TaskID, Priority} \subseteq df.cols)

\* The st.error and st.warning calls of a run
run_messages(loaded, no_pending, oldest_warned) ==
    (IF loaded.error THEN {"error_loading"} ELSE {})
    \cup (IF no_pending THEN {"warning_no_pending"} ELSE {})
    \cup (IF oldest_warned THEN {"warning_oldest"} ELSE {})

\* officer_pending_tasks_page, from the load to the summary table: what one
\* run leaves before the filter form
officer_pending_tasks_page(fetched) ==
    LET loaded == load_data_from_gsheet(fetched)
        cleaned == clean_data(loaded.data)
        pending == filter_pending_tasks(cleaned)
    IN IF empty(pending)
       THEN [cache |-> loaded, raw_data |-> loaded.data, clean_df |-> cleaned,
             pending_df |-> pending,
             messages |-> run_messages(loaded, TRUE, FALSE),
             outcome |-> "no_pending",
             officer_chart |-> None, dept_chart |-> None]
       ELSE [cache |-> loaded, raw_data |-> loaded.data, clean_df |-> cleaned,
             pending_df |-> pending,
             messages |-> run_messages(loaded, FALSE, FALSE),
             outcome |-> IF summary_table_raises(pending) THEN "raised" ELSE "ok",
             officer_chart |-> create_officer_summary_chart(pending),
             dept_chart |-> create_department_summary_chart(pending)]

\* main, before the page runs: the session-state key is set on the first run
\* of a session.
main(ss) ==
    IF "filters_applied" \in DOMAIN ss THEN ss
    ELSE ("filters_applied" :> FALSE) @@ ss

All == <<"A","l","l">>

\* Series.unique() of a column
unique(df, col) == {df.rows[i][col] : i \in 1..Len(df.rows)}

\* df[df[col] == v]
select_rows(df, col, v) ==
    [cols |-> df.cols, rows |-> SelectSeq(df.rows, LAMBDA r : r[col] = v)]

\* The options of the three selectboxes.  sorted() fixes the order of a list
\* from its members, so a list of options is known by its set; 'All' is the
\* first option, the one a fresh selectbox returns.
departments(pending) ==
    IF DealingBranch \in pending.cols
    THEN {All} \cup unique(pending, DealingBranch) ELSE {All}

officers(pending, selected_dept) ==
    IF selected_dept # All /\ DealingBranch \in pending.cols
       /\ AssignTo \in pending.cols
    THEN {All} \cup unique(select_rows(pending, DealingBranch, selected_dept), AssignTo)
    ELSE IF AssignTo \in pending.cols
         THEN {All} \cup unique(pending, AssignTo) ELSE {All}

priorities(pending) ==
    IF Priority \in pending.cols
    THEN {All} \cup unique(pending, Priority) ELSE {All}

\* What the three selectboxes can return in a run that the form's button
\* started: any option of each list, the officers' list being the one of the
\* department returned.
submitted_selections(pending) ==
    UNION {{[selected_dept |-> d, selected_officer |-> o, selected_priority |-> p] :
               o \in officers(pending, d), p \in priorities(pending)} :
           d \in departments(pending)}

\* What the three selectboxes return in a run nothing in the form started: a
\* selectbox shown in the last run with the same options returns the value
\* the session keeps for it, any other returns its first option.
kept_selections(kept, shown, pending) ==
    LET d == IF kept # None /\ departments(shown) = departments(pending)
             THEN kept.selected_dept ELSE All
        o == IF kept # None
                /\ officers(shown, kept.selected_dept) = officers(pending, d)
             THEN kept.selected_officer ELSE All
        p == IF kept # None /\ priorities(shown) = priorities(pending)
             THEN kept.selected_priority ELSE All
    IN [selected_dept |-> d, selected_officer |-> o, selected_priority |-> p]

\* The three conditions of "Apply filters", one after the other
matching(pending, sel) ==
    LET by_dept ==
            IF sel.selected_dept # All /\ DealingBranch \in pending.cols
            THEN select_rows(pending, DealingBranch, sel.selected_dept)
            ELSE pending
        by_officer ==
            IF sel.selected_officer # All /\ AssignTo \in by_dept.cols
            THEN select_rows(by_dept, AssignTo, sel.selected_officer)
            ELSE by_dept
    IN IF sel.selected_priority # All /\ Priority \in by_officer.cols
       THEN select_rows(by_officer, Priority, sel.selected_priority)
       ELSE by_officer

\* "Apply filters": filtered_df and the session state after it
filter_section(pending, ss, submitted, sel) ==
    IF submitted \/ "filters_applied" \notin DOMAIN ss
    THEN [filtered_df |-> matching(pending, sel),
          session_state |-> [k \in DOMAIN ss \cup {"filters_applied"} |-> TRUE]]
    ELSE [filtered_df |-> pending, session_state |-> ss]

\* A run of the officer page through main: submitted tells whether the
\* "Apply Filters" button of the form started it.  A run that returns or
\* raises before the form shows no selectbox, and the session drops the
\* values it kept for them.
OfficerRun(submitted) ==
    \E fetched \in FetchOutcomes :
      \E run \in {officer_pending_tasks_page(fetched)} :
         /\ page' = "officer"
         /\ cache' = run.cache
         /\ raw_data' = run.raw_data
         /\ clean_df' = run.clean_df
         /\ pending_df' = run.pending_df
         /\ messages' = run.messages
         /\ outcome' = run.outcome
         /\ officer_chart' = run.officer_chart
         /\ dept_chart' = run.dept_chart
         /\ oldest' = None
         /\ IF run.outcome # "ok"
            THEN /\ session_state' = main(session_state)
                 /\ widgets' = None
                 /\ apply_filters' = FALSE
                 /\ filtered_df' = None
            ELSE \E sel \in IF submitted
                            THEN submitted_selections(run.pending_df)
                            ELSE {kept_selections(widgets, pending_df, run.pending_df)} :
                   \E shown \in {filter_section(run.pending_df, main(session_state),
                                                submitted, sel)} :
                      /\ session_state' = shown.session_state
                      /\ widgets' = sel
                      /\ apply_filters' = submitted
                      /\ filtered_df' = shown.filtered_df
         /\ UNCHANGED <<sheet, now, reclean_df>>

\* The user opens or reruns the officer page
OfficerPageRun == OfficerRun(FALSE)

\* The user presses "Apply Filters" in the form the last run showed
ApplyFiltersRun ==
    /\ page = "officer"
    /\ widgets # None
    /\ OfficerRun(TRUE)

\* The "Find oldest task" block of the priority page on pending: the frame
\* after the block, the panel it shows and whether it warned.
find_oldest_task(pending) ==
    IF AssignedDate \notin pending.cols
    THEN [df |-> pending, panel |-> None, warned |-> FALSE]
    ELSE IF to_datetime_raises(pending)
    THEN [df |-> pending, panel |-> None, warned |-> TRUE]
    ELSE LET parsed == parse_assigned_date(pending)
             at == idxmin(parsed)
         IN IF at = 0
            THEN [df |-> parsed, panel |-> None, warned |-> TRUE]
            ELSE [df |-> parsed,
                  panel |-> [index |-> parsed.rows[at][IndexLabel],
                             days_old |-> timedelta_days(now,
                                              parsed.rows[at][AssignedDate][2])],
                  warned |-> FALSE]

\* task_priority_dashboard_page: what one run leaves
task_priority_dashboard_page(fetched) ==
    LET loaded == load_data_from_gsheet(fetched)
        cleaned == clean_data(loaded.data)
        pending == filter_pending_tasks(cleaned)
        found == find_oldest_task(pending)
    IN IF empty(pending)
       THEN [cache |-> loaded, raw_data |-> loaded.data, clean_df |-> cleaned,
             pending_df |-> pending,
             messages |-> run_messages(loaded, TRUE, FALSE),
             outcome |-> "no_pending",
             oldest |-> None]
       ELSE [cache |-> loaded, raw_data |-> loaded.data, clean_df |-> cleaned,
             pending_df |-> found.df,
             messages |-> run_messages(loaded, FALSE, found.warned),
             outcome |-> "ok",
             oldest |-> found.panel]

\* A run of the priority page
PriorityPageRun ==
    \E fetched \in FetchOutcomes :
      \E run \in {task_priority_dashboard_page(fetched)} :
         /\ page' = "priority"
         /\ cache' = run.cache
         /\ raw_data' = run.raw_data
         /\ clean_df' = run.clean_df
         /\ pending_df' = run.pending_df
         /\ messages' = run.messages
         /\ outcome' = run.outcome
         /\ oldest' = run.oldest
         /\ officer_chart' = None
         /\ dept_chart' = None
         /\ session_state' = main(session_state)
         /\ widgets' = None
         /\ apply_filters' = FALSE
         /\ filtered_df' = None
         /\ UNCHANGED <<sheet, now, reclean_df>>

\* The ttl of st.cache_data runs out.
CacheExpire ==
    /\ cache # None
    /\ cache' = None
    /\ UNCHANGED <<sheet, now, page, outcome, raw_data, clean_df, pending_df,
                   messages, officer_chart, dept_chart, oldest, reclean_df,
                   session_state, widgets, apply_filters, filtered_df>>

\* The pages opened and rerun on every sheet of Init.  No run of Spec is
\* started by the form's button, so each run of the officer page ends with
\* the selectboxes on 'All' and the whole of pending_df listed; the runs the
\* button starts are those of SpecFilters.
Next == OfficerPageRun \/ PriorityPageRun \/ CacheExpire

Spec == Init /\ [][Next]_vars

-----------------------------------------------------------------------------
(* The filter form: sessions in which the user also submits the form *)

IT == <<"I","T">>

FilterRows ==
    { Row(Finance, JohnSmith, High, Pending, Date0820),
      Row(Finance, JohnSmith, Low, Pending, Date0820),
      Row(Finance, Alice, High, Pending, Date0820),
      Row(IT, Alice, High, Pending, Date0820),
      Row(Finance, JohnSmith, High, Completed, Date0820) }

\* Tasks that differ in department, officer or priority, and the same
\* sheets without a Dealing Branch column or without the Assign To and
\* Priority columns.
FilterSheets ==
    LET full == {MkTable(rs) : rs \in SeqsUpTo(FilterRows, MaxRows)}
        two == {MkTable(rs) :
                  rs \in SeqsUpTo({Row(Finance, JohnSmith, Low, Pending, Date0820),
                                   Row(IT, Alice, High, Pending, Date0820)}, MaxRows)}
    IN full
       \cup {DropCol(t, DealingBranch) : t \in two}
       \cup {DropCol(DropCol(t, AssignTo), Priority) : t \in two}

InitFilters ==
    /\ sheet \in FilterSheets
    /\ now = ReferenceNoon
    /\ NewSession

NextFilters ==
    OfficerPageRun \/ ApplyFiltersRun \/ PriorityPageRun \/ CacheExpire

SpecFilters == InitFilters /\ [][NextFilters]_vars

-----------------------------------------------------------------------------
(* clean_data as a function: applied to a table, and again to its result *)

CleanOnce ==
    /\ clean_df = None
    /\ \E df \in {sheet, create_sample_data} :
         /\ raw_data' = df
         /\ clean_df' = clean_data(df)
    /\ UNCHANGED <<sheet, now, cache, page, outcome, pending_df, messages,
                   officer_chart, dept_chart, oldest, reclean_df,
                   session_state, widgets, apply_filters, filtered_df>>

CleanAgain ==
    /\ clean_df # None
    /\ reclean_df = None
    /\ reclean_df' = clean_data(clean_df)
    /\ UNCHANGED <<sheet, now, cache, page, outcome, raw_data, clean_df,
                   pending_df, messages, officer_chart, dept_chart, oldest,
                   session_state, widgets, apply_filters, filtered_df>>

NextClean == CleanOnce \/ CleanAgain

SpecClean == Init /\ [][NextClean]_vars

-----------------------------------------------------------------------------
(* Vocabulary of the properties *)

\* A script run has completed.
Ran == page # "none"

\* The rows of the table the last run loaded
RawRows == 1..Len(raw_data.rows)

\* The record loaded as row i is in the pending set.
InPending(i) ==
    \E k \in 1..Len(pending_df.rows) :
        pending_df.rows[k][IndexLabel] = raw_data.rows[i][IndexLabel]

\* A raw cell as text in lower case, without surrounding whitespace
Folded(cell) == str_lower(str_strip(cell))

\* Every cased character is upper case exactly at the start of a run of
\* cased characters.
IsTitleCased(s) ==
    \A i \in 1..Len(s) :
        IsCased(s[i]) => ((s[i] \in UpperSet) <=> (i = 1 \/ ~IsCased(s[i - 1])))

IsTrimmed(s) == s = <<>> \/ (~IsSpace(s[1]) /\ ~IsSpace(s[Len(s)]))

Urgent == <<"u","r","g","e","n","t">>

ContainsUrgent(cell) == cell # NaN /\ Contains(str_lower(cell), Urgent)

\* The names a MostUrgent bucket could carry
MostUrgentLabels ==
    { <<"M","o","s","t","U","r","g","e","n","t">>,
      <<"M","o","s","t"," ","U","r","g","e","n","t">> }

Unspecified == <<"U","n","s","p","e","c","i","f","i","e","d">>
Unknown == <<"U","n","k","n","o","w","n">>

-----------------------------------------------------------------------------
(* C1 *)

\* C1 as stated: every raw priority that contains "urgent", in any letter
\* case and at any position, is classified MostUrgent by clean_data.
C1_UrgentIsMostUrgent ==
    (Ran /\ Priority \in raw_data.cols) =>
        \A i \in RawRows :
            ContainsUrgent(raw_data.rows[i][Priority])
                => clean_df.rows[i][Priority] \in MostUrgentLabels

\* C1 amended: clean_data has no MostUrgent bucket.  A raw priority that
\* contains "urgent" comes out as itself, trimmed and title-cased ("urgent"
\* as "Urgent", " URGENT HIGH" as "Urgent High"), and is never turned into
\* High, Medium or Low, also when it contains "high" or "medium".
C1_UrgentKeptTitleCased ==
    (Ran /\ Priority \in raw_data.cols) =>
        \A i \in RawRows :
            ContainsUrgent(raw_data.rows[i][Priority]) =>
                LET p == clean_df.rows[i][Priority]
                IN /\ p \notin {High, Medium, Low}
                   /\ str_lower(p) = Folded(raw_data.rows[i][Priority])
                   /\ IsTitleCased(p)
                   /\ Contains(p, <<"U","r","g","e","n","t">>)

\* A run cleaned " URGENT HIGH"-like text: "urgent" together with "high".
C1_Witness ==
    /\ Ran /\ Priority \in raw_data.cols
    /\ \E i \in RawRows :
        /\ ContainsUrgent(raw_data.rows[i][Priority])
        /\ Contains(str_lower(raw_data.rows[i][Priority]), <<"h","i","g","h">>)
        /\ raw_data.rows[i][Priority] # clean_df.rows[i][Priority]
        /\ clean_df.rows[i][Priority] = <<"U","r","g","e","n","t"," ","H","i","g","h">>

-----------------------------------------------------------------------------
(* C2 *)

\* C2 as stated: a raw status that is a completion synonym of the
\* specification, in any letter case, is classified Completed and its record
\* is removed from the pending set.
C2_SynonymsAreCompleted ==
    (Ran /\ Status \in raw_data.cols) =>
        \A i \in RawRows :
            (raw_data.rows[i][Status] # NaN
             /\ str_lower(raw_data.rows[i][Status]) \in CompletionSynonyms)
                => (clean_df.rows[i][Status] = Completed /\ ~InPending(i))

\* The synonyms clean_data and filter_pending_tasks treat as completion
RecognisedSynonyms ==
    { <<"c","o","m","p","l","e","t","e">>,
      <<"c","o","m","p","l","e","t","e","d">>,
      <<"d","o","n","e">>,
      <<"f","i","n","i","s","h","e","d">> }

\* C2 amended: a raw status that is "complete", "completed", "done" or
\* "finished", in any letter case, is classified Completed and its record is
\* removed from the pending set; "closed", "disposed" and "resolved" are not
\* completion synonyms of clean_data: they stay as their title-cased text
\* and their records remain pending.
C2_RecognisedSynonymsAreCompleted ==
    (Ran /\ Status \in raw_data.cols) =>
        \A i \in RawRows :
            LET raw == raw_data.rows[i][Status]
                st == clean_df.rows[i][Status]
            IN /\ (raw # NaN /\ str_lower(raw) \in RecognisedSynonyms)
                    => (st = Completed /\ ~InPending(i))
               /\ (raw # NaN
                   /\ str_lower(raw) \in CompletionSynonyms \ RecognisedSynonyms)
                    => (/\ st # Completed
                        /\ str_lower(st) = str_lower(raw)
                        /\ IsTitleCased(st)
                        /\ InPending(i))

\* A run classified "DONE"-like text as Completed and dropped the record.
C2_Witness ==
    /\ Ran /\ Status \in raw_data.cols
    /\ \E i \in RawRows :
        /\ raw_data.rows[i][Status] = <<"D","O","N","E">>
        /\ clean_df.rows[i][Status] = Completed
        /\ ~InPending(i)

-----------------------------------------------------------------------------
(* C3 *)

\* C3: no record is hidden unless its status classifies as Completed.  A
\* record whose status is missing, blank or any text that is not a completion
\* synonym (letter case and surrounding whitespace ignored), and every record
\* of a table without a Status column, is in the pending set; and a record
\* that is not in the pending set has the normalised status Completed.
C3_OnlyCompletedHidden ==
    Ran =>
        \A i \in RawRows :
            /\ (\/ Status \notin {str_strip(c) : c \in raw_data.cols}
                \/ (Status \in raw_data.cols
                    /\ (\/ raw_data.rows[i][Status] = NaN
                        \/ Folded(raw_data.rows[i][Status]) \notin CompletionSynonyms)))
                 => InPending(i)
            /\ ~InPending(i)
                 => (Status \in clean_df.cols /\ clean_df.rows[i][Status] = Completed)

\* A run kept a record whose status cell is missing or blank.
C3_Witness ==
    /\ Ran
    /\ \E i \in RawRows :
        /\ InPending(i)
        /\ \/ (Status \in raw_data.cols /\ raw_data.rows[i][Status] = NaN)
           \/ (Status \in raw_data.cols /\ raw_data.rows[i][Status] = <<" ">>)
    /\ pending_df.rows # <<>>

\* A run on a sheet with no Status column kept a record.
C3_WitnessNoStatusColumn ==
    /\ Ran /\ Status \notin raw_data.cols
    /\ \E i \in RawRows : InPending(i)

-----------------------------------------------------------------------------
(* C4 *)

\* C4 as stated: after clean_data every priority is one of MostUrgent, High,
\* Medium, Low, Unspecified and every status one of Pending, Completed,
\* Unknown.
C4_ClosedEnumerations ==
    (Ran /\ {Priority, Status} \subseteq raw_data.cols) =>
        \A i \in RawRows :
            /\ clean_df.rows[i][Priority]
                 \in MostUrgentLabels \cup {High, Medium, Low, Unspecified}
            /\ clean_df.rows[i][Status] \in {Pending, Completed, Unknown}

\* The text of a raw cell, a missing cell read as "nan", folded
FoldedText(cell) == Folded(IF cell = NaN THEN <<"n","a","n">> ELSE cell)

\* v is t, trimmed and title-cased.
IsTitleOf(v, t) == str_lower(v) = t /\ IsTitleCased(v) /\ IsTrimmed(v)

\* C4 amended: clean_data does not close the enumerations.  The priority is
\* High, Medium or Low when the raw text is "high", "medium" or "low",
\* alone or followed by " priority"; the status is Completed for "complete",
\* "finished" and "done" and Pending for "in progress", "ongoing" and
\* "open" (letter case and surrounding whitespace ignored).  Every other
\* raw value, "completed" and "pending" included, survives as its own text,
\* trimmed and title-cased, and a missing cell as "Nan".
C4_MappedOrTitleCasedRaw ==
    (Ran /\ {Priority, Status} \subseteq raw_data.cols) =>
        \A i \in RawRows :
            LET rp == FoldedText(raw_data.rows[i][Priority])
                rs == FoldedText(raw_data.rows[i][Status])
                p == clean_df.rows[i][Priority]
                st == clean_df.rows[i][Status]
            IN /\ IF rp \in {<<"h","i","g","h">>,
                             <<"h","i","g","h"," ","p","r","i","o","r","i","t","y">>}
                  THEN p = High
                  ELSE IF rp \in {<<"m","e","d","i","u","m">>,
                                  <<"m","e","d","i","u","m"," ","p","r","i","o","r","i","t","y">>}
                  THEN p = Medium
                  ELSE IF rp \in {<<"l","o","w">>,
                                  <<"l","o","w"," ","p","r","i","o","r","i","t","y">>}
                  THEN p = Low
                  ELSE IsTitleOf(p, rp)
               /\ IF rs \in {<<"c","o","m","p","l","e","t","e">>,
                             <<"f","i","n","i","s","h","e","d">>,
                             <<"d","o","n","e">>}
                  THEN st = Completed
                  ELSE IF rs \in {<<"i","n"," ","p","r","o","g","r","e","s","s">>,
                                  <<"o","n","g","o","i","n","g">>,
                                  <<"o","p","e","n">>}
                  THEN st = Pending
                  ELSE IsTitleOf(st, rs)

\* A run left a priority outside every enumeration: "Critical", from a raw
\* cell written differently.
C4_Witness ==
    /\ Ran /\ {Priority, Status} \subseteq raw_data.cols
    /\ \E i \in RawRows :
        /\ clean_df.rows[i][Priority] = <<"C","r","i","t","i","c","a","l">>
        /\ raw_data.rows[i][Priority] # clean_df.rows[i][Priority]

-----------------------------------------------------------------------------
(* C5 *)

\* Every text cell of the table is trimmed and title-cased, every priority
\* is High, Medium or Low and every status Pending or Completed.
IsCanonical(df) ==
    /\ text_columns \subseteq df.cols
    /\ \A i \in 1..Len(df.rows) :
        /\ \A c \in text_columns :
             df.rows[i][c] # NaN /\ IsTitleCased(df.rows[i][c]) /\ IsTrimmed(df.rows[i][c])
        /\ df.rows[i][Priority] \in {High, Medium, Low}
        /\ df.rows[i][Status] \in {Pending, Completed}

\* C5: clean_data is idempotent: applied to its own result it returns that
\* result; and a table that is already canonical is returned unchanged.
C5_Idempotent ==
    /\ reclean_df # None => reclean_df = clean_df
    /\ (clean_df # None /\ IsCanonical(raw_data)) => clean_df = raw_data

\* clean_data changed a table and was applied to the result.
C5_Witness ==
    /\ reclean_df # None
    /\ clean_df # raw_data
    /\ clean_df.rows # <<>>
    /\ raw_data = sheet

-----------------------------------------------------------------------------
(* C6 *)

\* C6 as stated: when the fetch raises, the load returns an empty record
\* list together with a diagnostic, never a populated record set.
C6_FailureReturnsEmpty ==
    (Ran /\ "error_loading" \in messages) => raw_data.rows = <<>>

\* C6 amended: when the fetch raises, the load does not crash: it reports
\* the error with st.error and returns the sample table of
\* create_sample_data, eight records in nine columns, six of them pending,
\* on which the page then runs to its end (the priority page showing
\* TASK003, index 2, as the oldest); it never returns an empty record list.
\* A load that reports no error returns the sheet.
C6_FailureReturnsSample ==
    Ran =>
        /\ "error_loading" \in messages =>
            /\ Len(raw_data.rows) = 8
            /\ raw_data.cols = {TaskID, TaskName, DealingBranch, AssignTo, Priority,
                                Status, AssignedDate, DueDate, File}
            /\ Len(pending_df.rows) = 6
            /\ outcome = "ok"
            /\ page = "priority" => (oldest # None /\ oldest.index = 2)
        /\ "error_loading" \notin messages => raw_data = sheet

\* A run whose fetch raised (or was answered by a cached failure) while the
\* sheet itself held other records.
C6_Witness ==
    /\ Ran
    /\ "error_loading" \in messages
    /\ raw_data # sheet
    /\ sheet.rows # <<>>
    /\ pending_df.rows # <<>>

-----------------------------------------------------------------------------
(* C7 *)

\* The table the last run loaded has no 'Dealing Branch' header, however
\* padded.
NoDepartmentColumn == DealingBranch \notin {str_strip(c) : c \in raw_data.cols}

\* C7 as stated: without a 'Dealing Branch' column the run does not fail,
\* every normalised record carries the department "Unknown", and the
\* per-department count maps all records to the key "Unknown".
C7_DepartmentUnknown ==
    (Ran /\ page = "officer" /\ NoDepartmentColumn /\ pending_df.rows # <<>>) =>
        /\ outcome = "ok"
        /\ \A i \in 1..Len(clean_df.rows) :
             /\ DealingBranch \in DOMAIN clean_df.rows[i]
             /\ clean_df.rows[i][DealingBranch] = Unknown
        /\ dept_chart = Figure(Unknown :> Len(pending_df.rows))

\* C7 amended: without a 'Dealing Branch' column clean_data and
\* filter_pending_tasks do not fail and synthesise nothing: no normalised
\* record carries a department, and the per-department count is not produced
\* (create_department_summary_chart returns None).  The officer page runs to
\* its end when the columns its summary table reads are there.
C7_NoDepartmentSynthesised ==
    (Ran /\ NoDepartmentColumn) =>
        /\ DealingBranch \notin clean_df.cols
        /\ \A i \in 1..Len(clean_df.rows) : DealingBranch \notin DOMAIN clean_df.rows[i]
        /\ \A k \in 1..Len(pending_df.rows) : DealingBranch \notin DOMAIN pending_df.rows[k]
        /\ Len(clean_df.rows) = Len(raw_data.rows)
        /\ dept_chart = None
        /\ {TaskID, Priority} \subseteq raw_data.cols => outcome \in {"ok", "no_pending"}

\* A run of the officer page on pending records without a department column:
\* the officer chart is drawn, the department chart is not.
C7_Witness ==
    /\ Ran /\ page = "officer" /\ NoDepartmentColumn
    /\ Len(pending_df.rows) = MaxRows
    /\ officer_chart # None
    /\ dept_chart = None
    /\ outcome = "ok"

-----------------------------------------------------------------------------
(* C8 *)

\* The raw 'Assigned Date' cell of the record with index label l
RawDateOf(l) ==
    LET i == CHOOSE i \in RawRows : raw_data.rows[i][IndexLabel] = l
    IN raw_data.rows[i][AssignedDate]

\* C8: the "Days Old" of the oldest pending task is never negative, also for
\* an assigned date later than the reference time, and there is none when the
\* assigned date is absent.
C8_DaysOldNeverNegative ==
    (Ran /\ oldest # None) =>
        /\ oldest.days_old >= 0
        /\ RawDateOf(oldest.index) \notin {NaN, <<>>}

-----------------------------------------------------------------------------
(* C9 *)

\* The status of the record loaded as row i is not Completed.
NotCompleted(i) ==
    \/ Status \notin raw_data.cols
    \/ FoldedText(raw_data.rows[i][Status]) \notin RecognisedSynonyms

\* The raw officer name of row i is the officer `key`, letter case and
\* surrounding whitespace ignored; a missing cell is no name.
NamedAs(i, key) ==
    /\ raw_data.rows[i][AssignTo] # NaN
    /\ Folded(raw_data.rows[i][AssignTo]) = str_lower(key)

\* The same, a missing cell read as the text "nan".
NamedAsText(i, key) == FoldedText(raw_data.rows[i][AssignTo]) = str_lower(key)

RECURSIVE SumOver(_, _)
SumOver(f, keys) ==
    IF keys = {} THEN 0
    ELSE LET k == CHOOSE k \in keys : TRUE
         IN f[k] + SumOver(f, keys \ {k})

\* The officer chart of the last run was drawn.
OfficerChartDrawn == Ran /\ page = "officer" /\ officer_chart # None

\* C9 as stated: the count of every officer is the number of records that
\* are not Completed and whose raw officer name equals the officer, letter
\* case and surrounding whitespace ignored, and the counts sum to the number
\* of pending records.
C9_CountByOfficer ==
    OfficerChartDrawn =>
        LET counts == officer_chart.counts
        IN /\ \A key \in DOMAIN counts :
                counts[key] = Cardinality({i \in RawRows :
                                              NotCompleted(i) /\ NamedAs(i, key)})
           /\ SumOver(counts, DOMAIN counts)
                = Cardinality({i \in RawRows : NotCompleted(i)})

\* C9 amended: the same, with a missing officer cell read as the name "nan":
\* astype(str) turns it into that text, so the records without an officer
\* are counted under the key "Nan", together with any officer so named.
\* Every key is a trimmed, title-cased name, and the chart is drawn whenever
\* there is a pending record and an 'Assign To' column.
C9_CountByOfficerText ==
    /\ OfficerChartDrawn =>
        LET counts == officer_chart.counts
        IN /\ \A key \in DOMAIN counts :
                /\ counts[key] = Cardinality({i \in RawRows :
                                                 NotCompleted(i) /\ NamedAsText(i, key)})
                /\ counts[key] > 0
                /\ IsTitleCased(key) /\ IsTrimmed(key)
           /\ SumOver(counts, DOMAIN counts)
                = Cardinality({i \in RawRows : NotCompleted(i)})
           /\ SumOver(counts, DOMAIN counts) = Len(pending_df.rows)
    /\ (Ran /\ page = "officer" /\ AssignTo \in raw_data.cols
        /\ \E i \in RawRows : NotCompleted(i)) => officer_chart # None

\* "John Smith" pending and " john SMITH " completed: the chart counts
\* {"John Smith": 1}.
C9_Witness ==
    /\ OfficerChartDrawn
    /\ Len(raw_data.rows) = 2
    /\ raw_data.rows[1][AssignTo] = JohnSmith
    /\ raw_data.rows[2][AssignTo] # JohnSmith
    /\ NamedAs(2, JohnSmith)
    /\ NotCompleted(1) /\ ~NotCompleted(2)
    /\ officer_chart.counts = (JohnSmith :> 1)

-----------------------------------------------------------------------------
(* C10 *)

\* A cell that holds a date; a cell that holds text that is no date
IsParseable(cell) == cell \notin {NaN, <<>>} /\ IsIsoDate(cell)

IsUnparseable(cell) == cell \notin {NaN, <<>>} /\ ~IsIsoDate(cell)

\* A date as the number yyyymmdd
DateKey(cell) == Year(cell) * 10000 + Month(cell) * 100 + Day(cell)

\* The rows of the loaded table that are pending, and those among them with
\* a date
PendingRows == {i \in RawRows : InPending(i)}

DatedRows == {i \in PendingRows : IsParseable(raw_data.rows[i][AssignedDate])}

\* The panel shows a pending record whose date no dated pending record
\* precedes.
ShowsEarliest ==
    /\ oldest # None
    /\ \E i \in DatedRows :
        /\ raw_data.rows[i][IndexLabel] = oldest.index
        /\ \A j \in DatedRows :
             DateKey(raw_data.rows[i][AssignedDate])
                <= DateKey(raw_data.rows[j][AssignedDate])

\* The priority page ran its "Find oldest task" block.
OldestBlockRan ==
    /\ Ran /\ page = "priority"
    /\ AssignedDate \in raw_data.cols
    /\ PendingRows # {}

\* C10 as stated: whenever some pending record has a parseable date, the
\* oldest-pending computation selects a record with the earliest date among
\* them, unparseable and blank dates counting as absent; it reports none
\* only when no pending record has a parseable date.
C10_OldestAmongParseable ==
    OldestBlockRan =>
        IF DatedRows # {} THEN ShowsEarliest ELSE oldest = None

\* C10 amended: a blank or missing date counts as absent, but text that is
\* no date does not: when any pending record carries such text,
\* pd.to_datetime raises and the computation reports no oldest task at all
\* (a warning instead), also when other pending records have parseable
\* dates.  When no pending date is unparseable text, it selects a record with
\* the earliest date among the dated pending records, and reports none (with
\* the warning) when there is none.  In every case the page runs to its end.
C10_OldestUnlessUnparseable ==
    OldestBlockRan =>
        /\ outcome = "ok"
        /\ IF \E i \in PendingRows : IsUnparseable(raw_data.rows[i][AssignedDate])
           THEN oldest = None /\ "warning_oldest" \in messages
           ELSE IF DatedRows # {}
           THEN ShowsEarliest /\ "warning_oldest" \notin messages
           ELSE oldest = None /\ "warning_oldest" \in messages

\* A run found no oldest task although a pending record had a parseable
\* date: another pending record carried text that is no date.
C10_Witness ==
    /\ OldestBlockRan
    /\ DatedRows # {}
    /\ \E i \in PendingRows : IsUnparseable(raw_data.rows[i][AssignedDate])
    /\ oldest = None
    /\ "warning_oldest" \in messages

\* A run selected the earlier of two dated pending records, the later one
\* listed first.
C10_WitnessEarliest ==
    /\ OldestBlockRan
    /\ Cardinality(DatedRows) = 2
    /\ oldest # None
    /\ oldest.index = 1
    /\ DateKey(raw_data.rows[2][AssignedDate]) < DateKey(raw_data.rows[1][AssignedDate])


-----------------------------------------------------------------------------
(* C11: the Detailed Task List *)

\* The last run of the officer page showed a Detailed Task List.
ListShown == page = "officer" /\ outcome = "ok" /\ filtered_df # None

\* The index labels of the rows of a table
Labels(df) == {df.rows[i][IndexLabel] : i \in 1..Len(df.rows)}

\* The pending rows that match the three selections, "All" matching every
\* row.
Matches(r, sel) ==
    /\ sel.selected_dept = All
       \/ (DealingBranch \in DOMAIN r /\ r[DealingBranch] = sel.selected_dept)
    /\ sel.selected_officer = All
       \/ (AssignTo \in DOMAIN r /\ r[AssignTo] = sel.selected_officer)
    /\ sel.selected_priority = All
       \/ (Priority \in DOMAIN r /\ r[Priority] = sel.selected_priority)

MatchingLabels ==
    {pending_df.rows[i][IndexLabel] :
        i \in {j \in 1..Len(pending_df.rows) : Matches(pending_df.rows[j], widgets)}}

\* C11: in every run of the officer page that shows the Detailed Task List,
\* the list is made of pending records, and it is exactly the pending records
\* that match the selected department, officer and priority, whether or not
\* the run was started by the Apply Filters button.
C11_ListMatchesSelections ==
    ListShown =>
        /\ Labels(filtered_df) \subseteq Labels(pending_df)
        /\ Labels(filtered_df) = MatchingLabels

\* C11, the part about pending records only: the list never shows a record
\* that is not pending.
C11_ListWithinPending ==
    ListShown => Labels(filtered_df) \subseteq Labels(pending_df)

\* C11, for the runs the Apply Filters button started: the list is exactly
\* the pending records that match the selections; in every other run it is
\* every pending record, whatever the selectboxes show.
C11_ListMatchesWhenSubmitted ==
    ListShown =>
        IF apply_filters
        THEN Labels(filtered_df) = MatchingLabels
        ELSE filtered_df = pending_df

\* A run the button did not start, with a department still selected that
\* not every pending record belongs to.
C11_Witness ==
    /\ ListShown
    /\ ~apply_filters
    /\ widgets.selected_dept # All
    /\ MatchingLabels # Labels(pending_df)

\* A run the button started, which kept some pending records out of the list.
C11_WitnessSubmitted ==
    /\ ListShown
    /\ apply_filters
    /\ Labels(filtered_df) # Labels(pending_df)
    /\ Labels(filtered_df) # {}

\* The run the claim fails on: a sheet of a Finance task and an IT task,
\* "It" submitted as the department, then the page rerun without the button:
\* "It" is still selected and both tasks are listed.
C11_WitnessRerun ==
    /\ ListShown
    /\ ~apply_filters
    /\ raw_data = MkTable(<<Row(Finance, JohnSmith, High, Pending, Date0820),
                            Row(IT, Alice, High, Pending, Date0820)>>)
    /\ widgets.selected_dept = <<"I","t">>
    /\ Labels(filtered_df) = {0, 1}
    /\ MatchingLabels = {1}

=============================================================================
